---- MODULE Spec2Model ----
(***************************************************************************)
(* Model of the segmented download engine of gdl (package downloader):    *)
(* Downloader.Download, downloadChunkWithRetry, downloadChunk and          *)
(* DownloadState.Save / LoadState.                                         *)
(*                                                                         *)
(* One download is the orchestrator (Download), one fetcher goroutine per  *)
(* incomplete chunk and the background saver goroutine.  The origin, the   *)
(* scheduler and the host (which may kill the process) are the             *)
(* environment.  The output file and the sidecar live on disk and survive  *)
(* a kill; everything else is process memory.                              *)
(***************************************************************************)
EXTENDS Integers, Sequences, FiniteSets, TLC

\* ---------------------------------------------------------------- bounds
MaxSize == 2        \* largest Content-Length the origin reports
MaxConc == 2        \* largest requested concurrency
MaxRuns == 2        \* number of process runs (kills + 1)
MaxRead == 2        \* largest number of bytes one Read returns
MaxPage == 6        \* largest number of fragments of a Google Drive page

\* ------------------------------------------------------ program constants
maxRetries == 5     \* downloadChunkWithRetry: maxRetries := 5
UnknownSize == 0 - 1 \* http.Response.ContentLength when the header is absent

Sizes == {UnknownSize} \cup (1..MaxSize)

VARIABLES
    size,           \* info.Size: Content-Length of the HEAD answer
    conc,           \* cfg.Concurrency as requested by the caller
    rangeSupported, \* info.RangeSupported: Accept-Ranges == "bytes"
    ignoresRange,   \* the origin answers every GET with 200 and the whole body
    pc,             \* position of Download
    ret,            \* what Download returned: "none", "nil", "err"
    run,            \* number of the current process run
    chunks,         \* state.Chunks
    fetch,          \* one fetcher goroutine per chunk
    ckpt,           \* the background saver goroutine
    done,           \* the done channel is closed
    sidecar,        \* the file <output>.gdl.json
    fileExists,     \* the output file exists
    file,           \* the bytes of the output file
    gets,           \* GET requests issued in this run
    faulty,         \* some GET of this run was not served in full
    bytesWritten,   \* bytes this download has written to the output file
    stateURL,       \* state.URL
    resumed,        \* "Resuming download from state file..." was printed
    fsFailed,       \* the call of Download that failed on the filesystem
    bar,            \* current value of the progress bar of this download
    rin,            \* what GoogleDriveResolver.Resolve is given
    rout            \* the URL GoogleDriveResolver.Resolve returns

vars == <<size, conc, rangeSupported, ignoresRange, pc, ret, run, chunks,
          fetch, ckpt, done, sidecar, fileExists, file, gets, faulty,
          bytesWritten, stateURL, resumed, fsFailed, bar, rin, rout>>

cfgVars == <<size, conc, rangeSupported, ignoresRange>>

planVars == <<stateURL, resumed>>

resVars == <<rin, rout>>

\* ------------------------------------------------------------ arithmetic
\* Go's integer division truncates toward zero (b > 0).
GoDiv(a, b) == IF a >= 0 THEN a \div b ELSE 0 - ((0 - a) \div b)

Min(a, b) == IF a <= b THEN a ELSE b
Max(a, b) == IF a >= b THEN a ELSE b

\* ---------------------------------------------------------------- origin
\* The byte of the origin at offset o (offsets count from 0); never 0, so a
\* byte of the pre-sized file that was never written differs from it.
OriginByte(o) == o + 1

\* The body bytes of a read of n bytes at offset off.
OriginBytes(off, n) == [k \in 1..n |-> OriginByte(off + k - 1)]

\* ------------------------------------------------------------ the planner
\* end of chunk i (0-based) of c chunks of chunkSize bytes.
ChunkEndNoOverride(i, c, chunkSize, sz) == (i * chunkSize) + chunkSize - 1

ChunkEnd(i, c, chunkSize, sz) ==
    IF i = c - 1 THEN sz - 1 ELSE (i * chunkSize) + chunkSize - 1

\* state.Chunks of a new plan; element k is chunk k-1.
NewChunks(sz, c) ==
    LET chunkSize == GoDiv(sz, c)
    IN  [k \in 1..c |->
            [start |-> (k - 1) * chunkSize,
             end |-> ChunkEnd(k - 1, c, chunkSize, sz),
             downloaded |-> 0]]

\* cfg.Concurrency after "if !info.RangeSupported".
EffectiveConcurrency(c, ranges) == IF ranges THEN c ELSE 1

\* "Chunk already done" test of the spawn loop.
ChunkDoneStrict(c) == c.downloaded > (c.end - c.start + 1)

ChunkDone(c) == c.downloaded >= (c.end - c.start + 1)

\* currentStart of the retry loop.
\* The first byte of the segment, whatever has been downloaded.
SegmentStart(c) == c.start

CurrentStart(c) == c.start + c.downloaded

RECURSIVE SumDownloaded(_)
SumDownloaded(cs) ==
    IF cs = <<>> THEN 0 ELSE Head(cs).downloaded + SumDownloaded(Tail(cs))

\* --------------------------------------------------------------- sidecar
FileName == "out"

\* The same file under another path string (for instance "./out").
OtherName == "./out"

\* resolvedUrl of a run: a signed link that differs from run to run.
ResolvedUrl(r) == r

NoSidecar ==
    [st |-> "absent", url |-> 0, size |-> 0, file |-> "", chunks |-> <<>>]
EmptySidecar ==
    [st |-> "partial", url |-> 0, size |-> 0, file |-> "", chunks |-> <<>>]

\* LoadState: err unless the file exists and decodes.
LoadOk(sc) == sc.st = "ok"

\* The compatibility test of Download on a loaded state.
CompatibleBySize(sc, sz, name) == LoadOk(sc) /\ sc.size = sz

Compatible(sc, sz, name) == LoadOk(sc) /\ sc.size = sz /\ sc.file = name

\* The value Save stores for a chunk: atomic.LoadInt64(&c.Downloaded).
SnapshotValue(c) == c.downloaded

\* ----------------------------------------------------------- output file
\* os.OpenFile(O_RDWR|O_CREATE): the bytes the file holds after the open.
OpenFileTrunc(exists, data) == <<>>

OpenFile(exists, data) == IF exists THEN data ELSE <<>>

\* File.Truncate(n): cut, or extend with zero bytes.
Truncate(data, n) ==
    [k \in 1..n |-> IF k <= Len(data) THEN data[k] ELSE 0]

\* The sizing step of Download ("if info.Size > 0").
Sized(data, sz) ==
    IF sz > 0 /\ Len(data) # sz THEN Truncate(data, sz) ELSE data

\* File.WriteAt(b, off).
WriteAt(data, b, off) ==
    [k \in 1..Max(Len(data), off + Len(b)) |->
        IF k > off /\ k <= off + Len(b) THEN b[k - off]
        ELSE IF k <= Len(data) THEN data[k] ELSE 0]

\* The number of bytes a read adds to chunkState.Downloaded.
CountedBuf(n) == MaxRead

Counted(n) == n

\* ------------------------------------------------------------ progress bar
\* The bar of p.AddBar(info.Size): it completes when an increment takes its
\* current value to the total, and only if the total is positive.
BarCompleted(cur, total) == total > 0 /\ cur >= total

\* bar.IncrInt64(n), and the increment the proxy reader makes for a Read of
\* n bytes: nothing for n <= 0 or a completed bar, and the value stops at
\* the total.
IncrInt64(cur, total, n) ==
    IF n <= 0 \/ BarCompleted(cur, total) THEN cur
    ELSE IF total > 0 THEN Min(cur + n, total)
    ELSE cur + n

\* -------------------------------------------------------------- resolver
\* GoogleDriveResolver.Resolve, from the response of the export URL on.
\* A body is a sequence of fragments: an action="..." attribute, a hidden
\* input name="confirm" value="..." or name="uuid" value="...", or other
\* text.  For an action, rel is strings.HasPrefix(v, "/") and query is
\* strings.Contains(v, "?").
Fragment(t, v, rel, query) == [t |-> t, v |-> v, rel |-> rel, query |-> query]

Fragments ==
    { Fragment("action", "/download", TRUE, FALSE),
      Fragment("action", "https://drive.usercontent.google.com/download",
               FALSE, FALSE),
      Fragment("action", "/download?x=1", TRUE, TRUE),
      Fragment("confirm", "t_abc", FALSE, FALSE),
      Fragment("confirm", "a b", FALSE, FALSE),
      Fragment("uuid", "u-1", FALSE, FALSE),
      Fragment("uuid", "u-2", FALSE, FALSE),
      Fragment("text", "uc-download-link", FALSE, FALSE),
      Fragment("text", "confirm=", FALSE, FALSE),
      Fragment("text", "<p>", FALSE, FALSE) }

\* The bodies of n fragments, no fragment twice (a second copy of a
\* fragment adds no match and no text that the first does not have).
BodiesOfLen(n) ==
    {b \in [1..n -> Fragments] : \A i, j \in 1..n : i < j => b[i] # b[j]}

\* The bodies of up to n fragments.
Bodies(n) == UNION {BodiesOfLen(k) : k \in 0..n}

FileID == "ID1"

\* resp.Request.URL.String() when no redirect was followed.
LandedUrl(id) == "https://drive.google.com/uc?export=download&id=" \o id

NoPage == [id |-> "", html |-> FALSE, body |-> <<>>]

Pages == [id : {FileID}, html : BOOLEAN, body : Bodies(MaxPage)]

\* strings.Contains(bodyStr, "uc-download-link") ||
\* strings.Contains(bodyStr, "confirm=")
HasDownloadForm(body) ==
    \E i \in DOMAIN body :
        body[i].t = "text" /\ body[i].v \in {"uc-download-link", "confirm="}

\* Regexp.FindStringSubmatch: the index of the leftmost match, 0 for none.
FirstMatch(body, t) ==
    LET at == {i \in DOMAIN body : body[i].t = t}
    IN  IF at = {} THEN 0 ELSE CHOOSE i \in at : \A j \in at : i <= j

\* url.QueryEscape on the values of the model.
QueryEscape(v) == IF v = "a b" THEN "a+b" ELSE v

\* url.Values.Encode writes the keys in sorted order.
KeyOrder == <<"confirm", "export", "id", "uuid">>

RECURSIVE EncodeFrom(_, _, _)
EncodeFrom(values, i, first) ==
    IF i > Len(KeyOrder) THEN ""
    ELSE IF KeyOrder[i] \in DOMAIN values
    THEN (IF first THEN "" ELSE "&") \o KeyOrder[i] \o "="
            \o QueryEscape(values[KeyOrder[i]])
            \o EncodeFrom(values, i + 1, FALSE)
    ELSE EncodeFrom(values, i + 1, first)

Encode(values) == EncodeFrom(values, 1, TRUE)

\* The separator between the action and the encoded parameters.
SeparatorAlwaysQuestion(action) == "?"

Separator(action) == IF action.query THEN "&" ELSE "?"

\* "Handle relative action URL".
BaseAction(action) ==
    IF action.rel THEN "https://drive.usercontent.google.com" \o action.v
    ELSE action.v

\* values.Set("id"), Set("export"), Set("confirm"), and Set("uuid") when the
\* page has one.
FormValues(id, confirm, body) ==
    LET u == FirstMatch(body, "uuid")
        base == [k \in {"id", "export", "confirm"} |->
                    IF k = "id" THEN id
                    ELSE IF k = "export" THEN "download" ELSE confirm]
    IN  IF u = 0 THEN base
        ELSE [k \in {"id", "export", "confirm", "uuid"} |->
                IF k = "uuid" THEN body[u].v ELSE base[k]]

\* Steps 3 and 4 of GoogleDriveResolver.Resolve.
GoogleDriveResolve(in) ==
    LET a == FirstMatch(in.body, "action")
        c == FirstMatch(in.body, "confirm")
    IN  IF in.html /\ HasDownloadForm(in.body) /\ a # 0 /\ c # 0
        THEN BaseAction(in.body[a]) \o Separator(in.body[a])
                \o Encode(FormValues(in.id, in.body[c].v, in.body))
        ELSE LandedUrl(in.id)

\* -------------------------------------------------------------- processes
\* A fetcher: position, loop index i, start and totalWritten of the
\* request, the read that is being counted (n, err), the result, the GETs
\* it has sent, the seconds of each time.Sleep it has made, and whether
\* the error of its last attempt is that of a WriteAt.
IdleFetcher ==
    [pc |-> "idle", i |-> 0, start |-> 0, tw |-> 0, n |-> 0, err |-> "nil",
     res |-> "none", att |-> 0, slept |-> <<>>, werr |-> FALSE]

NoFsError == "none"

IdleSaver == [pc |-> "off", idx |-> 0, snap |-> <<>>, linked |-> FALSE,
              quiet |-> FALSE]

Active(f) == f.pc \in {"top", "hang", "read", "blocked", "count"}

NoFetcherActive == \A k \in DOMAIN fetch : ~Active(fetch[k])

\* A byte an earlier version of the origin's file had.
OldByte == MaxSize + 2

\* What an earlier download into the same file can have left on disk when
\* this one starts: nothing; or the file with its first byte and a sidecar
\* of one chunk counting it, written for a file one byte longer, or written
\* under another path string.
InitialDisk(sz) ==
    {[sidecar |-> NoSidecar, fileExists |-> FALSE, file |-> <<>>]}
    \cup
    (IF sz < 1 THEN {}
     ELSE {[sidecar |-> [st |-> "ok", url |-> 0, size |-> sz + 1,
                         file |-> FileName,
                         chunks |-> <<[start |-> 0, end |-> sz,
                                       downloaded |-> 1]>>],
            fileExists |-> TRUE,
            file |-> [k \in 1..(sz + 1) |-> IF k = 1 THEN OldByte ELSE 0]],
           [sidecar |-> [st |-> "ok", url |-> 0, size |-> sz,
                         file |-> OtherName,
                         chunks |-> <<[start |-> 0, end |-> sz - 1,
                                       downloaded |-> 1]>>],
            fileExists |-> TRUE,
            file |-> [k \in 1..sz |-> IF k = 1 THEN OriginByte(0) ELSE 0]]})

Init ==
    /\ size \in Sizes
    /\ conc \in 1..MaxConc
    /\ rangeSupported \in BOOLEAN
    /\ ignoresRange \in BOOLEAN
    /\ pc = "start"
    /\ ret = "none"
    /\ run = 1
    /\ chunks = <<>>
    /\ fetch = <<>>
    /\ ckpt = IdleSaver
    /\ done = FALSE
    /\ \E d \in InitialDisk(size) :
        /\ sidecar = d.sidecar
        /\ fileExists = d.fileExists
        /\ file = d.file
    /\ gets = 0
    /\ faulty = FALSE
    /\ bytesWritten = 0
    /\ stateURL = 0
    /\ resumed = FALSE
    /\ fsFailed = NoFsError
    /\ bar = 0
    /\ rin = NoPage
    /\ rout = ""

\* ------------------------------------------------------------ orchestrator
\* Probe fails (network error or a status other than 200): Download returns
\* the error.
ProbeFail ==
    /\ pc = "start"
    /\ pc' = "returned"
    /\ ret' = "err"
    /\ UNCHANGED <<resVars, cfgVars, planVars, fsFailed, bar, run, chunks, fetch, ckpt, done, sidecar,
                   fileExists, file, gets, faulty, bytesWritten>>

\* The GET of the resolver or the HEAD of Probe is never answered:
\* Client.Do has neither a deadline nor a context and does not return.
ProbeStall ==
    /\ pc = "start"
    /\ pc' = "probing"
    /\ UNCHANGED <<resVars, cfgVars, planVars, fsFailed, bar, ret, run, chunks,
                   fetch, ckpt, done, sidecar, fileExists, file, gets,
                   faulty, bytesWritten>>

\* Probe succeeds; the sidecar is loaded and kept when compatible, else a
\* new plan is made.
Plan ==
    /\ pc = "start"
    /\ pc' = "planned"
    /\ resumed' = Compatible(sidecar, size, FileName)
    /\ chunks' = IF resumed'
                 THEN sidecar.chunks
                 ELSE NewChunks(size, EffectiveConcurrency(conc, rangeSupported))
    /\ stateURL' = ResolvedUrl(run)
    /\ UNCHANGED <<resVars, cfgVars, fsFailed, bar, ret, run, fetch, ckpt, done, sidecar, fileExists,
                   file, gets, faulty, bytesWritten>>

\* os.MkdirAll, os.OpenFile or out.Truncate fails: Download returns the
\* error.  MkdirAll runs before the sidecar is loaded; Truncate runs, on
\* the opened (and, when absent, created) file, only when its length is not
\* the size.
FsFail(op) ==
    /\ op \in {"mkdir", "open", "truncate"}
    /\ pc = IF op = "mkdir" THEN "start" ELSE "planned"
    /\ op = "truncate" =>
            (size > 0 /\ Len(OpenFile(fileExists, file)) # size)
    /\ pc' = "returned"
    /\ ret' = "err"
    /\ fsFailed' = op
    /\ IF op = "truncate"
       THEN fileExists' = TRUE /\ file' = OpenFile(fileExists, file)
       ELSE UNCHANGED <<fileExists, file>>
    /\ UNCHANGED <<resVars, cfgVars, planVars, bar, run, chunks, fetch, ckpt, done,
                   sidecar, gets, faulty, bytesWritten>>

\* Open and size the output file, start the saver, spawn one fetcher per
\* chunk that is not done.
Launch ==
    /\ pc = "planned"
    /\ pc' = "wait"
    /\ fileExists' = TRUE
    /\ file' = Sized(OpenFile(fileExists, file), size)
    /\ ckpt' = [IdleSaver EXCEPT !.pc = "wait"]
    /\ fetch' = [k \in 1..Len(chunks) |->
                    IF ChunkDone(chunks[k]) THEN IdleFetcher
                    ELSE [IdleFetcher EXCEPT !.pc = "top"]]
    /\ bytesWritten' = SumDownloaded(chunks)
    /\ bar' = IncrInt64(0, size, SumDownloaded(chunks))
    /\ UNCHANGED <<resVars, cfgVars, planVars, fsFailed, ret, run, chunks, done, sidecar, gets, faulty>>

\* wg.Wait() returns, close(done).
Wait ==
    /\ pc = "wait"
    /\ NoFetcherActive
    /\ pc' = "remove"
    /\ done' = TRUE
    /\ UNCHANGED <<resVars, cfgVars, planVars, fsFailed, bar, ret, run, chunks, fetch, ckpt, sidecar,
                   fileExists, file, gets, faulty, bytesWritten>>

\* p.Wait() returns once the bar has completed; then os.Remove(stateFile);
\* return nil.  A saver that has the sidecar open
\* keeps a handle on the unlinked file.
Remove ==
    /\ pc = "remove"
    /\ BarCompleted(bar, size)
    /\ pc' = "returned"
    /\ ret' = "nil"
    /\ sidecar' = NoSidecar
    /\ ckpt' = [ckpt EXCEPT !.linked = FALSE]
    /\ UNCHANGED <<resVars, cfgVars, planVars, fsFailed, bar, run, chunks, fetch, done, fileExists, file, gets,
                   faulty, bytesWritten>>

\* ---------------------------------------------------------------- fetcher
\* The loop test of downloadChunkWithRetry: i < maxRetries.
LoopContinuesInclusive(i) == i <= maxRetries

LoopContinues(i) == i < maxRetries

\* time.Sleep(time.Duration(i+1) * time.Second) after attempt i failed.
SleepSeconds(i) == i + 1

\* downloadChunkWithRetry has returned r.
Returned(f, r) ==
    [IdleFetcher EXCEPT !.pc = "done", !.res = r, !.i = f.i, !.att = f.att,
                        !.slept = f.slept]

\* After downloadChunk returned e ("nil", "err", or "wfail" for the error
\* of a WriteAt) in attempt f.i, with the chunk as c: lines 275-285 of
\* downloadChunkWithRetry.
AfterChunk(f, c, e) ==
    IF c.start + c.downloaded > c.end THEN Returned(f, "nil")
    ELSE IF e = "nil" THEN Returned(f, "nil")
    ELSE LET g == [f EXCEPT !.slept = Append(f.slept, SleepSeconds(f.i)),
                            !.i = f.i + 1]
         IN  IF LoopContinues(g.i)
             THEN [IdleFetcher EXCEPT !.pc = "top", !.i = g.i, !.att = g.att,
                                      !.slept = g.slept,
                                      !.werr = (e = "wfail")]
             ELSE [Returned(g, "err") EXCEPT !.werr = (e = "wfail")]

\* The statuses the origin may answer a ranged GET with ("neterr": no
\* answer, Client.Do fails; "stall": no answer and no failure, Client.Do
\* does not return).
Answers == IF ignoresRange THEN {"200"}
           ELSE {"206", "416", "500", "neterr", "stall"}

\* The statuses whose body downloadChunk streams to the file.
StreamsBodyAlso200(status) == status \in {"200", "206"}

StreamsBody(status) == status = "206"

\* The last offset the Range header asks for.
RangeEndOpen(c, sz) == sz - 1

RangeEnd(c, sz) == c.end

\* One turn of the retry loop up to the answer: return nil when nothing is
\* left, else send the GET with Range: bytes=<currentStart>-<end> and take
\* the status (lines 263-270 and 289-317).
Attempt(k, status) ==
    /\ k \in DOMAIN fetch
    /\ fetch[k].pc = "top"
    /\ status \in Answers
    /\ LET cur == CurrentStart(chunks[k])
           f == [fetch[k] EXCEPT !.att = fetch[k].att + 1, !.werr = FALSE]
       IN  IF cur > chunks[k].end
           THEN /\ fetch' = [fetch EXCEPT ![k] = Returned(fetch[k], "nil")]
                /\ UNCHANGED <<gets, faulty>>
           ELSE /\ gets' = gets + 1
                /\ IF status = "stall"
                   THEN /\ fetch' = [fetch EXCEPT ![k] =
                                        [f EXCEPT !.pc = "hang"]]
                        /\ faulty' = TRUE
                   ELSE IF StreamsBody(status)
                   THEN /\ fetch' = [fetch EXCEPT ![k] =
                                        [f EXCEPT !.pc = "read",
                                                  !.start = cur, !.tw = 0]]
                        /\ UNCHANGED faulty
                   ELSE /\ fetch' = [fetch EXCEPT
                            ![k] = AfterChunk(f, chunks[k],
                                     IF status = "416" THEN "nil" ELSE "err")]
                        /\ faulty' = TRUE
    /\ UNCHANGED <<resVars, cfgVars, planVars, fsFailed, bar, pc, ret, run, chunks, ckpt,
                   done, sidecar, fileExists, file, bytesWritten>>

\* Bytes of the requested range the body has not delivered yet.
BodyLeft(k) == RangeEnd(chunks[k], size) - fetch[k].start + 1 - fetch[k].tw

\* What a Read of the body, and the WriteAt of what it read, can come to:
\* no error, the end of the body, a broken read, a read that blocks
\* ("stall"), a WriteAt that fails ("wfail").
ReadResults == {"nil", "eof", "err", "stall", "wfail"}

\* reader.Read returns (n, e); n > 0 bytes are written at start+totalWritten.
\* e = "eof" with bytes left is a short body, e = "err" a broken read.  A
\* WriteAt that fails leaves the file as it was and ends the attempt with
\* its error, before anything is counted.  The reader is the bar's proxy:
\* the bar has taken the n bytes before WriteAt is called.
ReadBody(k, n, e) ==
    /\ k \in DOMAIN fetch
    /\ fetch[k].pc = "read"
    /\ n \in 0..Min(MaxRead, BodyLeft(k))
    /\ e \in ReadResults
    /\ ~(n = 0 /\ e \in {"nil", "wfail"})
    /\ ~(n > 0 /\ e = "stall")
    /\ faulty' = (faulty \/ e \in {"err", "stall", "wfail"}
                         \/ (e = "eof" /\ n < BodyLeft(k)))
    /\ bar' = IncrInt64(bar, size, n)
    /\ IF e = "stall"
       THEN /\ fetch' = [fetch EXCEPT ![k].pc = "blocked"]
            /\ UNCHANGED <<file, bytesWritten>>
       ELSE IF e = "wfail"
       THEN /\ fetch' = [fetch EXCEPT
                ![k] = AfterChunk(fetch[k], chunks[k], "wfail")]
            /\ UNCHANGED <<file, bytesWritten>>
       ELSE IF n > 0
       THEN /\ file' = WriteAt(file,
                               OriginBytes(fetch[k].start + fetch[k].tw, n),
                               fetch[k].start + fetch[k].tw)
            /\ bytesWritten' = bytesWritten + n
            /\ fetch' = [fetch EXCEPT ![k].pc = "count", ![k].n = n,
                                      ![k].err = e]
       ELSE /\ fetch' = [fetch EXCEPT
                ![k] = AfterChunk(fetch[k], chunks[k],
                                  IF e = "eof" THEN "nil" ELSE "err")]
            /\ UNCHANGED <<file, bytesWritten>>
    /\ UNCHANGED <<resVars, cfgVars, planVars, fsFailed, pc, ret, run, chunks, ckpt,
                   done, sidecar, fileExists, gets>>

\* The idle timer fires 30 seconds after the last Reset and cancels the
\* request: the blocked Read returns the context's error.
Watchdog(k) ==
    /\ k \in DOMAIN fetch
    /\ fetch[k].pc = "blocked"
    /\ fetch' = [fetch EXCEPT ![k] = AfterChunk(fetch[k], chunks[k], "err")]
    /\ UNCHANGED <<resVars, cfgVars, planVars, fsFailed, bar, pc, ret, run, chunks, ckpt,
                   done, sidecar, fileExists, file, gets, faulty,
                   bytesWritten>>

\* totalWritten += n; atomic.AddInt64(&chunkState.Downloaded, n); then the
\* error of the read is looked at.
Count(k) ==
    /\ k \in DOMAIN fetch
    /\ fetch[k].pc = "count"
    /\ LET c == [chunks[k] EXCEPT
                    !.downloaded = chunks[k].downloaded + Counted(fetch[k].n)]
           f == [fetch[k] EXCEPT !.tw = fetch[k].tw + fetch[k].n]
       IN  /\ chunks' = [chunks EXCEPT ![k] = c]
           /\ fetch' = [fetch EXCEPT
                ![k] = IF f.err = "nil"
                       THEN [f EXCEPT !.pc = "read", !.n = 0]
                       ELSE AfterChunk(f, c,
                                IF f.err = "eof" THEN "nil" ELSE "err")]
    /\ UNCHANGED <<resVars, cfgVars, planVars, fsFailed, bar, pc, ret, run, ckpt, done, sidecar, fileExists,
                   file, gets, faulty, bytesWritten>>

\* ------------------------------------------------------------------ saver
\* The ticker fires: state.Save starts.
CkptTick ==
    /\ ckpt.pc = "wait"
    /\ ckpt' = [ckpt EXCEPT !.pc = IF Len(chunks) = 0 THEN "open" ELSE "snap",
                            !.idx = 1, !.snap = <<>>,
                            !.quiet = NoFetcherActive]
    /\ UNCHANGED <<resVars, cfgVars, planVars, fsFailed, bar, pc, ret, run, chunks, fetch, done, sidecar,
                   fileExists, file, gets, faulty, bytesWritten>>

\* One turn of the snapshot loop of Save: atomic load of one counter.
CkptLoad ==
    /\ ckpt.pc = "snap"
    /\ LET k == ckpt.idx
           v == SnapshotValue(chunks[k])
       IN  ckpt' = [ckpt EXCEPT
                      !.snap = Append(ckpt.snap,
                                      [chunks[k] EXCEPT !.downloaded = v]),
                      !.idx = k + 1,
                      !.pc = IF k = Len(chunks) THEN "open" ELSE "snap"]
    /\ UNCHANGED <<resVars, cfgVars, planVars, fsFailed, bar, pc, ret, run, chunks, fetch, done, sidecar,
                   fileExists, file, gets, faulty, bytesWritten>>

\* os.WriteFile opens the sidecar with O_CREATE|O_TRUNC: it exists, empty.
CkptOpen ==
    /\ ckpt.pc = "open"
    /\ sidecar' = EmptySidecar
    /\ ckpt' = [ckpt EXCEPT !.pc = "write", !.linked = TRUE]
    /\ UNCHANGED <<resVars, cfgVars, planVars, fsFailed, bar, pc, ret, run, chunks, fetch, done, fileExists,
                   file, gets, faulty, bytesWritten>>

\* os.WriteFile writes the JSON of the snapshot and closes.
CkptWrite ==
    /\ ckpt.pc = "write"
    /\ sidecar' = IF ckpt.linked
                  THEN [st |-> "ok", url |-> stateURL, size |-> size,
                        file |-> FileName, chunks |-> ckpt.snap]
                  ELSE sidecar
    /\ ckpt' = [ckpt EXCEPT !.pc = "wait", !.idx = 0, !.snap = <<>>,
                            !.linked = FALSE, !.quiet = FALSE]
    /\ UNCHANGED <<resVars, cfgVars, planVars, fsFailed, bar, pc, ret, run, chunks, fetch, done, fileExists,
                   file, gets, faulty, bytesWritten>>

\* The select takes the done case: the saver goroutine returns.
CkptStop ==
    /\ ckpt.pc = "wait"
    /\ done
    /\ ckpt' = [ckpt EXCEPT !.pc = "exit"]
    /\ UNCHANGED <<resVars, cfgVars, planVars, fsFailed, bar, pc, ret, run, chunks, fetch, done, sidecar,
                   fileExists, file, gets, faulty, bytesWritten>>

\* ------------------------------------------------------------------- host
\* The process is killed during a download and started again with the same
\* arguments: memory is lost, the output file and the sidecar stay.
Kill ==
    /\ pc \in {"probing", "planned", "wait", "remove"}
    /\ run < MaxRuns
    /\ run' = run + 1
    /\ pc' = "start"
    /\ chunks' = <<>>
    /\ fetch' = <<>>
    /\ ckpt' = IdleSaver
    /\ done' = FALSE
    /\ gets' = 0
    /\ faulty' = FALSE
    /\ bytesWritten' = 0
    /\ stateURL' = 0
    /\ resumed' = FALSE
    /\ fsFailed' = NoFsError
    /\ bar' = 0
    /\ UNCHANGED <<resVars, cfgVars, ret, sidecar, fileExists, file>>

Fetcher(k) ==
    \/ \E status \in {"200", "206", "416", "500", "neterr", "stall"} :
            Attempt(k, status)
    \/ \E n \in 0..MaxRead, e \in ReadResults : ReadBody(k, n, e)
    \/ Watchdog(k)
    \/ Count(k)

Next ==
    \/ ProbeFail
    \/ ProbeStall
    \/ Plan
    \/ \E op \in {"mkdir", "open", "truncate"} : FsFail(op)
    \/ Launch
    \/ Wait
    \/ Remove
    \/ \E k \in 1..MaxConc : Fetcher(k)
    \/ CkptTick
    \/ CkptLoad
    \/ CkptOpen
    \/ CkptWrite
    \/ CkptStop
    \/ Kill

Spec == Init /\ [][Next]_vars

\* The goroutines under a fair scheduler: Download itself, every fetcher
\* (its idle timer included) and the saver (its ticker included) each take
\* a step when they can,
\* and the saver's select takes the done case when it keeps being ready.
FairSpec ==
    /\ Spec
    /\ WF_vars(Plan \/ Launch \/ Wait \/ Remove)
    /\ \A k \in 1..MaxConc : WF_vars(Fetcher(k))
    /\ WF_vars(CkptTick \/ CkptLoad \/ CkptOpen \/ CkptWrite)
    /\ SF_vars(CkptStop)

\* The resolver on its own: a response is drawn, Resolve is applied to it.
ResolveInit ==
    /\ rin \in Pages
    /\ rout = ""
    /\ pc = "resolve"
    /\ size = 1 /\ conc = 1
    /\ rangeSupported = TRUE /\ ignoresRange = FALSE
    /\ ret = "none" /\ run = 1
    /\ chunks = <<>> /\ fetch = <<>>
    /\ ckpt = IdleSaver /\ done = FALSE
    /\ sidecar = NoSidecar /\ fileExists = FALSE /\ file = <<>>
    /\ gets = 0 /\ faulty = FALSE /\ bytesWritten = 0
    /\ stateURL = 0 /\ resumed = FALSE /\ fsFailed = NoFsError
    /\ bar = 0

ResolveStep ==
    /\ pc = "resolve"
    /\ pc' = "resolved"
    /\ rout' = GoogleDriveResolve(rin)
    /\ UNCHANGED <<rin, cfgVars, planVars, fsFailed, bar, ret, run, chunks,
                   fetch, ckpt, done, sidecar, fileExists, file, gets,
                   faulty, bytesWritten>>

ResolveNext == ResolveStep

ResolveSpec == ResolveInit /\ [][ResolveNext]_vars

\* ------------------------------------------------------------- type check
TypeOK ==
    /\ size \in Sizes
    /\ conc \in 1..MaxConc
    /\ pc \in {"start", "probing", "planned", "wait", "remove", "returned"}
    /\ ret \in {"none", "nil", "err"}
    /\ run \in 1..MaxRuns
    /\ Len(fetch) \in {0, Len(chunks)}
    /\ sidecar.st \in {"absent", "partial", "ok"}
    /\ gets \in 0..(maxRetries * MaxConc)
    /\ bar \in 0..Max(size, 0)

\* ------------------------------------------------------------ properties
\* Every offset in [0, size) of the output file holds the origin's byte.
FileCorrect ==
    \A o \in 0..(size - 1) :
        (o + 1) \in DOMAIN file /\ file[o + 1] = OriginByte(o)

\* Every chunk is complete.
AllComplete == \A k \in DOMAIN chunks : ChunkDone(chunks[k])

\* Some fetcher used up its attempts and left its chunk incomplete.
SomeFetcherFailed ==
    \E k \in DOMAIN fetch : fetch[k].res = "err" /\ ~ChunkDone(chunks[k])

\* Bytes of the output file that have been written (the sized file is zero
\* elsewhere).
FileBytesWritten == Cardinality({k \in DOMAIN file : file[k] # 0})

\* C1: whenever Download returns nil, every offset in [0, size) of the
\* output file holds the origin's byte at that offset.
C1_CorrectBytes == (pc = "returned" /\ ret = "nil") => FileCorrect

\* C2: when a fetcher exhausted its retries with its segment incomplete,
\* the sidecar still exists, with the counters, when Download returns.
C2_SidecarKept ==
    (pc = "returned" /\ SomeFetcherFailed) => sidecar.st = "ok"

\* C3: when a fetcher failed after exhausting its retries, Download returns
\* a non-nil error (fetch is empty again when the process was killed).
C3_ErrorSurfaced ==
    [](SomeFetcherFailed =>
        <>((pc = "returned" /\ ret = "err") \/ fetch = <<>>))

\* C4: probe without range support and an origin that answers the GET with
\* 200 and the whole body: one chunk, one GET, the output file equals the
\* origin's bytes and the sidecar is deleted when Download has returned.
C4_NoRangeOneGet ==
    (~rangeSupported /\ ignoresRange /\ size >= 1 /\ fetch # <<>>)
    => /\ Len(chunks) = 1
       /\ gets <= 1
       /\ fetch[1].pc = "done" => (fetch[1].res = "nil" /\ FileCorrect)
       /\ pc = "returned" =>
            (ret = "nil" /\ gets = 1 /\ FileCorrect
                /\ sidecar.st = "absent")

\* The chunks tile [0, size): first start 0, each start right after the
\* previous end, last end size-1, every offset in exactly one chunk.
Tiles(cs, sz) ==
    /\ cs[1].start = 0
    /\ \A i \in 2..Len(cs) : cs[i].start = cs[i - 1].end + 1
    /\ cs[Len(cs)].end = sz - 1
    /\ \A o \in 0..(sz - 1) :
        Cardinality({i \in DOMAIN cs : cs[i].start <= o /\ o <= cs[i].end}) = 1

FreshPlan == pc = "planned" /\ ~Compatible(sidecar, size, FileName)

\* C5: for size >= 1 and C >= 1 a new plan has exactly C chunks (1 when
\* range is unsupported) that tile [0, size) without gap or overlap, the
\* last one ending at size-1, each with downloaded = 0; the chunk list keeps
\* that geometry for the whole download.
C5_PlanTiles ==
    (size >= 1 /\ chunks # <<>>)
    => /\ Tiles(chunks, size)
       /\ FreshPlan =>
            /\ Len(chunks) = (IF rangeSupported THEN conc ELSE 1)
            /\ \A i \in DOMAIN chunks : chunks[i].downloaded = 0

\* A new plan for a size smaller than and not divisible by the concurrency.
C5_Witness ==
    /\ FreshPlan
    /\ rangeSupported /\ size = 1 /\ conc = 2
    /\ Len(chunks) = 2 /\ chunks[2].end = 0

\* The counters of a download never go down.
CountersNonDecreasing ==
    \A k \in (DOMAIN chunks) \cap (DOMAIN chunks') :
        run' = run => chunks'[k].downloaded >= chunks[k].downloaded

CountersInRange ==
    \A k \in DOMAIN chunks :
        /\ 0 <= chunks[k].downloaded
        /\ chunks[k].downloaded <= chunks[k].end - chunks[k].start + 1

\* C6: in every state of a download each chunk's downloaded counter is
\* non-decreasing and satisfies 0 <= downloaded <= end - start + 1.
C6_MonotonicBounded == [](CountersInRange) /\ [][CountersNonDecreasing]_vars

C8_ResumeSameBytes ==
    (run >= 2 /\ pc = "returned" /\ ret = "nil")
    => /\ ~faulty => AllComplete
       /\ AllComplete => FileCorrect

\* A rerun that resumed: one of two chunks was complete in the sidecar, the
\* other was fetched with one GET, and the file is the origin's.
C8_Witness ==
    /\ run = 2 /\ pc = "returned" /\ ret = "nil" /\ ~faulty
    /\ size = 2 /\ Len(chunks) = 2 /\ gets = 1
    /\ AllComplete /\ FileCorrect

\* C9: after Download returned from a run (of a file of known size) in
\* which all segments completed, the sidecar does not exist.
C9_SidecarGone ==
    (size >= 1 /\ pc = "returned" /\ ret = "nil" /\ AllComplete)
    => sidecar.st = "absent"

\* C10: when the probe yields an unknown size, Download returns an error
\* and never reports success (pc is "start" again when the process was
\* killed and started anew).
C10_UnknownSizeFatal ==
    /\ [](size = UnknownSize /\ pc = "returned" => ret = "err")
    /\ [](size = UnknownSize /\ pc = "planned" =>
            <>((pc = "returned" /\ ret = "err") \/ pc = "start"))

\* C11: the loaded sidecar is used for the resume exactly when it decodes,
\* its size is the probed size and its file is the output path; when used,
\* its chunk list and counters are kept and the URL is the freshly resolved
\* one; when not used, the state is a new plan with every downloaded = 0.
C11_ResumeRule ==
    pc = "planned" =>
        /\ resumed <=> (sidecar.st = "ok" /\ sidecar.size = size
                            /\ sidecar.file = FileName)
        /\ stateURL = ResolvedUrl(run)
        /\ resumed => chunks = sidecar.chunks
        /\ ~resumed =>
            /\ Len(chunks) = (IF rangeSupported THEN conc ELSE 1)
            /\ \A k \in DOMAIN chunks : chunks[k].downloaded = 0

\* A resume from a sidecar that holds progress and the link of the run
\* before.
C11_Witness ==
    /\ pc = "planned" /\ resumed
    /\ sidecar.url # stateURL
    /\ SumDownloaded(chunks) > 0

\* A filesystem call of this run has failed: MkdirAll, OpenFile or Truncate
\* in Download, or the WriteAt that ended the last attempt of a fetcher.
FsErrorSeen ==
    fsFailed # NoFsError \/ \E k \in DOMAIN fetch : fetch[k].werr

\* C12: a filesystem error in mkdir, open, truncate or a fetcher's WriteAt
\* is fatal: the fetcher whose write failed has returned (the write is not
\* retried), Download returns the error, and the sidecar is neither
\* written nor deleted after the error.
C12_FsErrorFatal ==
    /\ [](/\ fsFailed # NoFsError => (pc = "returned" /\ ret = "err")
          /\ \A k \in DOMAIN fetch :
                fetch[k].werr => (fetch[k].pc = "done" /\ fetch[k].res = "err")
          /\ (pc = "returned" /\ FsErrorSeen) => ret = "err")
    /\ [][(FsErrorSeen /\ run' = run) => sidecar' = sidecar]_vars

\* The page has an action="..." attribute and a confirm input.
HasActionAndConfirm(body) ==
    FirstMatch(body, "action") # 0 /\ FirstMatch(body, "confirm") # 0

\* "[&uuid=<uuid>]"
UuidPart(body) ==
    IF FirstMatch(body, "uuid") = 0 THEN ""
    ELSE "&uuid=" \o body[FirstMatch(body, "uuid")].v

\* The action with a root-relative one promoted, and '?' or '&'.
ActionPart(body) ==
    LET a == body[FirstMatch(body, "action")]
    IN  (IF a.rel THEN "https://drive.usercontent.google.com" ELSE "")
            \o a.v \o (IF a.query THEN "&" ELSE "?")

\* C13 as stated: for a text/html response whose body has an action="..."
\* and a confirm input, whatever else it holds, Resolve returns
\* <action>?id=<id>&export=download&confirm=<token>[&uuid=<uuid>].
C13_AsStated ==
    (pc = "resolved" /\ rin.html /\ HasActionAndConfirm(rin.body))
    => rout = ActionPart(rin.body) \o "id=" \o rin.id
                \o "&export=download&confirm="
                \o rin.body[FirstMatch(rin.body, "confirm")].v
                \o UuidPart(rin.body)

\* C13 amended: when the body also contains "uc-download-link" or
\* "confirm=", Resolve returns
\* <action>?confirm=<token>&export=download&id=<id>[&uuid=<uuid>], the
\* parameters in the sorted order of their names and the token
\* query-escaped; without that marker (or without action or confirm, or for
\* a response that is not text/html) it returns the URL it landed on.
C13_ResolvedUrl ==
    pc = "resolved" =>
        IF rin.html /\ HasActionAndConfirm(rin.body)
            /\ (\E i \in DOMAIN rin.body :
                    rin.body[i].v \in {"uc-download-link", "confirm="})
        THEN rout = ActionPart(rin.body) \o "confirm="
                \o (IF rin.body[FirstMatch(rin.body, "confirm")].v = "a b"
                    THEN "a+b" ELSE "t_abc")
                \o "&export=download&id=" \o rin.id \o UuidPart(rin.body)
        ELSE rout = "https://drive.google.com/uc?export=download&id="
                        \o rin.id

\* The page of the spec's scenario with the marker of the download link,
\* a uuid and a second form after the first: the first action and the
\* first confirm token are the ones used.
C13_Witness ==
    /\ pc = "resolved" /\ rin.html
    /\ Len(rin.body) = 6
    /\ rin.body[1].v = "uc-download-link"
    /\ rin.body[2].v = "/download"
    /\ rin.body[3].v = "t_abc"
    /\ rin.body[4].v = "u-2"
    /\ rin.body[5].v = "/download?x=1"
    /\ rin.body[6].v = "a b"
    /\ rout = "https://drive.usercontent.google.com/download?confirm=t_abc&export=download&id=ID1&uuid=u-2"

\* Fetcher k has just written the bytes of a Read to the file.
Wrote(k) ==
    /\ k \in DOMAIN fetch /\ k \in DOMAIN fetch'
    /\ fetch[k].pc = "read" /\ fetch'[k].pc = "count"

\* Fetcher k has just sent a GET that was answered with a body to stream.
Requested(k) ==
    /\ k \in DOMAIN fetch /\ k \in DOMAIN fetch'
    /\ fetch[k].pc = "top" /\ fetch'[k].pc = "read"

\* Fetcher k has just added the bytes it wrote to its segment's counter.
Counts(k) ==
    /\ k \in DOMAIN fetch /\ k \in DOMAIN fetch'
    /\ fetch[k].pc = "count" /\ fetch'[k].pc # "count" /\ run' = run

Refused(k) ==
    /\ k \in DOMAIN fetch /\ k \in DOMAIN fetch'
    /\ fetch[k].pc = "top" /\ fetch'[k].pc \notin {"read", "hang"}
    /\ fetch'[k].att = fetch[k].att + 1

\* C15: a GET answered with another status than 206 writes nothing and
\* counts nothing; an origin that answers every ranged GET with 200 has each
\* answer counted as a failed attempt that is retried, no byte written, and
\* every fetcher ends with an error after 5 GETs, its segment incomplete.
C15_Status200Rejected ==
    /\ [](ignoresRange =>
            \A k \in DOMAIN fetch :
                /\ fetch[k].pc \in {"idle", "top", "done"}
                /\ fetch[k].pc = "top" => fetch[k].att = fetch[k].i
                /\ fetch[k].pc = "done" =>
                    /\ fetch[k].res = "err" /\ fetch[k].att = 5
                    /\ chunks[k].downloaded < chunks[k].end - chunks[k].start + 1)
    /\ [][\A k \in 1..MaxConc :
            /\ Refused(k) => (file' = file /\ chunks' = chunks)
            /\ (Refused(k) /\ ignoresRange) =>
                /\ gets' = gets + 1
                /\ fetch'[k].i = fetch[k].i + 1
                /\ fetch'[k].pc = (IF fetch[k].att < 4 THEN "top" ELSE "done")
            /\ (ignoresRange /\ pc = "wait" /\ pc' = "wait") =>
                (file' = file /\ chunks' = chunks)
      ]_vars

\* An origin that ignores Range: the fetcher has given up after 5 GETs, the
\* file holds no byte of the origin.
C15_Witness ==
    /\ ignoresRange /\ size >= 1 /\ pc = "wait"
    /\ \E k \in DOMAIN fetch :
        /\ fetch[k].pc = "done" /\ fetch[k].res = "err" /\ fetch[k].att = 5
        /\ chunks[k].downloaded = 0
    /\ \A o \in DOMAIN file : file[o] = 0

C17_BackoffSequence ==
    \A k \in DOMAIN fetch :
        /\ Len(fetch[k].slept) <= 4
        /\ \A i \in DOMAIN fetch[k].slept : fetch[k].slept[i] = i
        /\ (fetch[k].pc = "done" /\ fetch[k].res = "err") =>
                fetch[k].slept = <<1, 2, 3, 4>>

\* C18: Download spawns a fetcher for the segments that are not complete
\* and for no other; a segment that was complete keeps its counter and its
\* bytes in the file, and no GET is sent for it.
C18_CompleteSegmentSkipped ==
    /\ [](\A k \in DOMAIN fetch :
            fetch[k].pc = "idle" =>
                /\ fetch[k].att = 0
                /\ chunks[k].downloaded >= chunks[k].end - chunks[k].start + 1)
    /\ [][\A k \in 1..MaxConc :
            /\ (pc = "planned" /\ pc' = "wait" /\ k \in DOMAIN chunks) =>
                /\ fetch'[k].pc = "idle"
                    <=> chunks[k].downloaded
                            >= chunks[k].end - chunks[k].start + 1
                /\ fetch'[k].pc = "idle" =>
                    \A o \in (chunks[k].start + 1)..(chunks[k].end + 1) :
                        o \in DOMAIN file => file'[o] = file[o]
            /\ (k \in DOMAIN fetch /\ fetch[k].pc = "idle" /\ run' = run) =>
                /\ fetch'[k] = fetch[k]
                /\ chunks'[k] = chunks[k]
                /\ \A o \in (chunks[k].start + 1)..(chunks[k].end + 1) :
                        file'[o] = file[o]
      ]_vars

\* A resumed run: segment 1 came complete from the sidecar and has no
\* fetcher, while the fetcher of segment 2 has written its byte.
C18_Witness ==
    /\ run = 2 /\ resumed /\ Len(fetch) = 2
    /\ fetch[1].pc = "idle" /\ chunks[1].downloaded = 1
    /\ file[1] = OriginByte(0)
    /\ fetch[2].pc = "done" /\ fetch[2].att >= 1 /\ chunks[2].downloaded = 1

\* C19: a fetcher that has returned nil has a complete segment.
C19_NilMeansComplete ==
    \A k \in DOMAIN fetch :
        (fetch[k].pc = "done" /\ fetch[k].res = "nil") =>
            chunks[k].downloaded = chunks[k].end - chunks[k].start + 1

\* C20: under fair scheduling Download (of a file of known size) returns,
\* whatever the origin does:
\* a request that stalls is cancelled, and the saver stops after done.
C20_EventuallyReturns ==
    /\ size >= 1 => <>(pc = "returned")
    /\ \A k \in 1..MaxConc :
        [](k \in DOMAIN fetch /\ fetch[k].pc \in {"hang", "blocked"}
            => <>(k \notin DOMAIN fetch \/ fetch[k].pc \notin {"hang", "blocked"}))
    /\ [](done => <>(~done \/ ckpt.pc = "exit"))

====
